---- MODULE Spec2Model ----
(***************************************************************************)
(* A model of the LiveProfessor component (src/unnamed/part_000, the file  *)
(* components/LiveProfessor.tsx of the repository): the PCM codec          *)
(* (createBlob, decodeAudioData), the playback scheduler kept in           *)
(* nextStartTimeRef / sourcesRef, and the session life cycle driven by     *)
(* startSession, the transport callbacks and cleanup; and of the App       *)
(* component's quiz and read-aloud handlers with playTTS of                *)
(* src/services/gemini.ts.                                                 *)
(*                                                                         *)
(* Time is counted in output frames (1/24000 s), so that a buffer of n     *)
(* frames has duration n.  Samples are fixed-point numbers: the sample     *)
(* value v stands for the amplitude v / (Int16Scale * Sub).                *)
(***************************************************************************)
EXTENDS Integers, Sequences, FiniteSets, TLC

VARIABLES
    \* --- React state of the component ---
    mounted,            \* the component instance is mounted
    status,             \* 'connecting' | 'listening' | 'speaking' | 'error'
    isActive,
    errorMessage,
    \* --- refs (0 is null, i > 0 the object the i-th startSession made) ---
    sessionPromiseRef,
    audioContextRef,
    inputContextRef,
    streamRef,
    processorRef,
    nextStartTimeRef,   \* the schedule cursor
    sourcesRef,         \* the active set: indices into srcs
    \* --- the world outside the component ---
    att,                \* per startSession call: its devices, stream, session
    srcs,               \* every AudioBufferSourceNode made, in creation order
    clock,              \* wall time, in output frames
    pending,            \* the onmessage call suspended at its await
    nStarts,            \* startSession calls so far
    \* --- history, read by the properties only ---
    last,               \* the scheduler step that ran last, if one did
    scen,               \* how far the run has followed the nominal scenario
    cleanupCalls,       \* cleanup() invocations while it followed it
    tornDown,           \* an exit path ran and no start was requested since
    interruptedSince,   \* an interruption was handled since the last enqueue
    \* --- codec harness (CodecSpec) ---
    frame,      \* the Float32Array handed to createBlob
    blob,       \* the chunk createBlob returned (NoValue before)
    decoded,    \* what decodeAudioData made of blob (NoValue before)
    \* --- the outbound side of the transport, per startSession call ---
    resolved,   \* the calls whose sessionPromise has resolved
    thens,      \* what the callbacks waiting on its sessionPromise will send
    sent,       \* the messages handed to its session, in order
    captured,   \* the frames its ScriptProcessor has delivered
    \* --- the App component (AppSpec) ---
    state,              \* AppState: "UPLOAD" | "LECTURE" | "QUIZ"
    files,              \* files.length
    isLoading,
    loading,            \* the request awaited while isLoading: "lecture" | "quiz"
    lecture,            \* 0 is null, n > 0 the n-th generated lecture
    quiz,               \* 0 is the initial [], n > 0 the n-th generated quiz
    quizAnswers,        \* question index -> chosen option, for the answered ones
    quizSubmitted,
    isReadingLecture,
    stopTTSRef,         \* 0 is null, k > 0 the stop function of the k-th playTTS
    tts                 \* per playTTS call: "pending", "playing", "stopped",
                        \* "ended", or "silent" (failed or without audio)

codecVars == << frame, blob, decoded >>

outVars == << resolved, thens, sent, captured >>

appVars == << state, files, isLoading, loading, lecture, quiz, quizAnswers,
              quizSubmitted, isReadingLecture, stopTTSRef, tts >>

compVars == << mounted, status, isActive, errorMessage, sessionPromiseRef,
               audioContextRef, inputContextRef, streamRef, processorRef,
               nextStartTimeRef, sourcesRef, att, srcs, clock, pending, nStarts,
               last, scen, cleanupCalls, tornDown, interruptedSince >>

vars == << compVars, codecVars, outVars, appVars >>

NoValue == [none |-> TRUE]

\* ------------------------------------------------------------------ bounds

\* Samples are multiples of 1 / (Int16Scale * Sub).
Sub == 2

\* Longest frame the codec harness encodes.
MaxFrameLen == 2

\* ------------------------------------------------------------- PCM codec

Int16Scale == 32768

Base64Pad == 64

\* Amplitude 1.0 and -1.0 in sample units.
One == Int16Scale * Sub

Abs(x) == IF x < 0 THEN -x ELSE x

\* x / y rounded toward zero (the integer part kept by an integer conversion).
TruncDiv(x, y) == IF x >= 0 THEN x \div y ELSE -((-x) \div y)

\* An element store into an Int16Array: the number modulo 2^16, read as signed.
ToInt16(n) == ((n + 32768) % 65536) - 32768

\* int16[i] = data[i] * 32768 : the product is v / Sub, and the store keeps
\* its integer part modulo 2^16.
SampleToInt16(v) == ToInt16(TruncDiv(v, Sub))

\* new Uint8Array(int16.buffer): two bytes per sample, low byte first.
RECURSIVE Int16Bytes(_)
Int16Bytes(ints) ==
    IF ints = << >> THEN << >>
    ELSE LET u == (Head(ints) + 65536) % 65536
         IN  << u % 256, u \div 256 >> \o Int16Bytes(Tail(ints))

\* btoa over the binary string whose char codes are the bytes: sextets 0..63
\* stand for the base64 alphabet, Base64Pad for '='.
RECURSIVE btoa(_)
btoa(b) ==
    IF Len(b) = 0 THEN << >>
    ELSE IF Len(b) = 1 THEN
        << b[1] \div 4, (b[1] % 4) * 16, Base64Pad, Base64Pad >>
    ELSE IF Len(b) = 2 THEN
        << b[1] \div 4, (b[1] % 4) * 16 + (b[2] \div 16), (b[2] % 16) * 4, Base64Pad >>
    ELSE
        << b[1] \div 4, (b[1] % 4) * 16 + (b[2] \div 16),
           (b[2] % 16) * 4 + (b[3] \div 64), b[3] % 64 >>
        \o btoa(SubSeq(b, 4, Len(b)))

RECURSIVE SextetBytes(_)
SextetBytes(s) ==
    IF Len(s) <= 1 THEN << >>
    ELSE IF Len(s) = 2 THEN << s[1] * 4 + (s[2] \div 16) >>
    ELSE IF Len(s) = 3 THEN
        << s[1] * 4 + (s[2] \div 16), (s[2] % 16) * 16 + (s[3] \div 4) >>
    ELSE
        << s[1] * 4 + (s[2] \div 16), (s[2] % 16) * 16 + (s[3] \div 4),
           (s[3] % 4) * 64 + s[4] >>
        \o SextetBytes(SubSeq(s, 5, Len(s)))

\* atob (forgiving base64 decode): up to two trailing '=' of a string whose
\* length is a multiple of 4 are dropped; a remaining length of 1 modulo 4 or a
\* remaining '=' is an InvalidCharacterError.
atob(s) ==
    LET n == Len(s)
        cut == IF n > 0 /\ n % 4 = 0 /\ s[n] = Base64Pad
               THEN (IF s[n - 1] = Base64Pad THEN 2 ELSE 1)
               ELSE 0
        t == SubSeq(s, 1, n - cut)
    IN  IF Len(t) % 4 = 1 \/ (\E i \in 1..Len(t) : t[i] = Base64Pad)
        THEN [ok |-> FALSE, error |-> "InvalidCharacterError"]
        ELSE [ok |-> TRUE, bytes |-> SextetBytes(t)]

createBlob(data) ==
    [data |-> btoa(Int16Bytes([i \in 1..Len(data) |-> SampleToInt16(data[i])])),
     mimeType |-> "audio/pcm;rate=16000"]

\* new Int16Array(bytes.buffer) read back, low byte first.
RECURSIVE BytesInt16(_)
BytesInt16(b) ==
    IF Len(b) < 2 THEN << >>
    ELSE << ToInt16(b[1] + 256 * b[2]) >> \o BytesInt16(SubSeq(b, 3, Len(b)))

\* decodeAudioData: the promise's outcome.  atob may throw, new
\* Int16Array(buffer) over an odd number of bytes throws a RangeError, and
\* ctx.createBuffer(1, frameCount, 24000) throws a NotSupportedError when
\* frameCount is 0; each rejects the promise and no AudioBuffer exists.
\* channelData[i] = dataInt16[i] / 32768 is dataInt16[i] * Sub in sample
\* units; the buffer's duration is its frame count (at 24000 frames per
\* second).
decodeAudioData_Lenient(base64) ==
    LET a == atob(base64)
    IN  IF ~a.ok THEN [ok |-> FALSE, error |-> a.error]
        ELSE IF Len(a.bytes) \div 2 = 0 THEN [ok |-> FALSE, error |-> "NotSupportedError"]
        ELSE LET ints == BytesInt16(a.bytes)
             IN  [ok |-> TRUE,
                  channelData |-> [i \in 1..Len(ints) |-> ints[i] * Sub],
                  duration |-> Len(ints)]

decodeAudioData(base64) ==
    LET a == atob(base64)
    IN  IF ~a.ok THEN [ok |-> FALSE, error |-> a.error]
        ELSE IF Len(a.bytes) % 2 # 0 THEN [ok |-> FALSE, error |-> "RangeError"]
        ELSE IF Len(a.bytes) = 0 THEN [ok |-> FALSE, error |-> "NotSupportedError"]
        ELSE LET ints == BytesInt16(a.bytes)
             IN  [ok |-> TRUE,
                  channelData |-> [i \in 1..Len(ints) |-> ints[i] * Sub],
                  duration |-> Len(ints)]

\* ------------------------------------------------------ component: bounds

\* startSession calls in one run (the mount, then retries and restarts).
MaxStarts == 2

\* Wall time stops advancing here.
MaxTime == 1

\* AudioBufferSourceNodes made in one run.
MaxSources == 2

\* Longest inbound audio chunk, in frames.
MaxChunkFrames == 2

\* Frames one ScriptProcessor delivers in one run.
MaxFrames == 2

\* Length of the files prop.
NumFiles == 2

\* ---------------------------------------------------------- App: bounds

\* Lectures and quizzes generated, and playTTS calls made, in one run.
MaxLectures == 2

MaxQuizzes == 2

MaxTTS == 2

\* Questions of a quiz, and options of a question.
QuizLen == 1

NumOptions == 2

\* quizAnswers = {}
NoAnswers == [i \in {} |-> 0]

\* ----------------------------------------------------- component: values

Attempts == 1..MaxStarts

NoAttempt ==
    [mic |-> "none", outCtx |-> "none", inCtx |-> "none", stream |-> "none",
     session |-> "none", proc |-> "none", born |-> 0]

Max(a, b) == IF a >= b THEN a ELSE b

\* ctx.currentTime of the output AudioContext the i-th start made: it counts
\* from 0 at the context's creation.
currentTime(i) == clock - att[i].born

\* The payload of an inbound audio message: n frames of silence, base64.
FramesChunk(n) == btoa(Int16Bytes([j \in 1..n |-> 0]))

\* What msg.serverContent.modelTurn.parts[0].inlineData.data can be: absent
\* (the empty sequence), well-formed chunks, and a chunk of 3 bytes.
InboundAudio ==
    { << >> } \cup { FramesChunk(n) : n \in 1..MaxChunkFrames } \cup { btoa(<< 1, 2, 3 >>) }

Messages == [audio : InboundAudio, interrupted : BOOLEAN]

\* A state setter of a component that is no longer mounted does nothing.
SetState(cur, new) == IF mounted THEN new ELSE cur

\* The part of the state that cleanup and startSession read and write.
Here ==
    [status |-> status, isActive |-> isActive, errorMessage |-> errorMessage,
     sessionPromiseRef |-> sessionPromiseRef, audioContextRef |-> audioContextRef,
     inputContextRef |-> inputContextRef, streamRef |-> streamRef,
     processorRef |-> processorRef, nextStartTimeRef |-> nextStartTimeRef,
     sourcesRef |-> sourcesRef, att |-> att, srcs |-> srcs, nStarts |-> nStarts,
     cleanupCalls |-> cleanupCalls, raised |-> FALSE]

\* A source keeps its context and times while it is scheduled or playing;
\* once stopped or ended only that fact is kept.
Gone(st) == [ctx |-> 0, start |-> 0, dur |-> 0, st |-> st]

\* s.stop() on every source of a set.
StopAll(ss, set) ==
    [k \in DOMAIN ss |->
        IF k \in set /\ ss[k].st = "sched" THEN Gone("stopped") ELSE ss[k]]

\* ---------------------------------------------------------------- cleanup

\* Each step as the code guards it.  close() on a context that is already
\* closed, the one call here that can raise, sets raised.
cleanup_KeepsOutputRef(s) ==
    LET p == s.processorRef
        m == s.streamRef
        i == s.inputContextRef
        o == s.audioContextRef
        a1 == IF p # 0 /\ i # 0
              THEN [s.att EXCEPT ![p].proc = "disconnected"] ELSE s.att
        a2 == IF m # 0 THEN [a1 EXCEPT ![m].stream = "stopped"] ELSE a1
        a3 == IF i # 0 THEN [a2 EXCEPT ![i].inCtx = "closed"] ELSE a2
        a4 == IF o # 0 THEN [a3 EXCEPT ![o].outCtx = "closed"] ELSE a3
    IN  [s EXCEPT
            !.isActive = SetState(s.isActive, FALSE),
            !.processorRef = IF p # 0 /\ i # 0 THEN 0 ELSE p,
            !.streamRef = 0,
            !.inputContextRef = 0,
            !.srcs = StopAll(s.srcs, s.sourcesRef),
            !.sourcesRef = {},
            !.att = a4,
            !.sessionPromiseRef = 0,
            !.cleanupCalls = s.cleanupCalls + 1,
            !.raised = s.raised
                       \/ (i # 0 /\ s.att[i].inCtx = "closed")
                       \/ (o # 0 /\ s.att[o].outCtx = "closed")]

cleanup_ResetsCursor(s) ==
    LET p == s.processorRef
        m == s.streamRef
        i == s.inputContextRef
        o == s.audioContextRef
        a1 == IF p # 0 /\ i # 0
              THEN [s.att EXCEPT ![p].proc = "disconnected"] ELSE s.att
        a2 == IF m # 0 THEN [a1 EXCEPT ![m].stream = "stopped"] ELSE a1
        a3 == IF i # 0 THEN [a2 EXCEPT ![i].inCtx = "closed"] ELSE a2
        a4 == IF o # 0 THEN [a3 EXCEPT ![o].outCtx = "closed"] ELSE a3
    IN  [s EXCEPT
            !.isActive = SetState(s.isActive, FALSE),
            !.processorRef = IF p # 0 /\ i # 0 THEN 0 ELSE p,
            !.streamRef = 0,
            !.inputContextRef = 0,
            !.srcs = StopAll(s.srcs, s.sourcesRef),
            !.sourcesRef = {},
            !.nextStartTimeRef = 0,
            !.audioContextRef = 0,
            !.att = a4,
            !.sessionPromiseRef = 0,
            !.cleanupCalls = s.cleanupCalls + 1,
            !.raised = s.raised
                       \/ (i # 0 /\ s.att[i].inCtx = "closed")
                       \/ (o # 0 /\ s.att[o].outCtx = "closed")]

cleanup(s) ==
    LET p == s.processorRef
        m == s.streamRef
        i == s.inputContextRef
        o == s.audioContextRef
        a1 == IF p # 0 /\ i # 0
              THEN [s.att EXCEPT ![p].proc = "disconnected"] ELSE s.att
        a2 == IF m # 0 THEN [a1 EXCEPT ![m].stream = "stopped"] ELSE a1
        a3 == IF i # 0 THEN [a2 EXCEPT ![i].inCtx = "closed"] ELSE a2
        a4 == IF o # 0 THEN [a3 EXCEPT ![o].outCtx = "closed"] ELSE a3
    IN  [s EXCEPT
            !.isActive = SetState(s.isActive, FALSE),
            !.processorRef = IF p # 0 /\ i # 0 THEN 0 ELSE p,
            !.streamRef = 0,
            !.inputContextRef = 0,
            !.srcs = StopAll(s.srcs, s.sourcesRef),
            !.sourcesRef = {},
            !.audioContextRef = 0,
            !.att = a4,
            !.sessionPromiseRef = 0,
            !.cleanupCalls = s.cleanupCalls + 1,
            !.raised = s.raised
                       \/ (i # 0 /\ s.att[i].inCtx = "closed")
                       \/ (o # 0 /\ s.att[o].outCtx = "closed")]

\* ----------------------------------------------------------- startSession

\* startSession up to its await of getUserMedia: the i-th call makes the
\* i-th output and input AudioContext.
startSession(s) ==
    LET i == s.nStarts + 1
    IN  [s EXCEPT
            !.errorMessage = SetState(s.errorMessage, ""),
            !.status = SetState(s.status, "connecting"),
            !.audioContextRef = i,
            !.inputContextRef = i,
            !.att = [s.att EXCEPT ![i] =
                        [NoAttempt EXCEPT !.mic = "pending", !.outCtx = "running",
                                          !.inCtx = "running", !.born = clock]],
            !.nStarts = i]

\* startSession when a constructor throws: new AudioContext for the output
\* (dev = "output", nothing made) or for the input (dev = "input", the output
\* context made and stored).  The catch block runs in the same call.
startSessionThrows(s, dev) ==
    LET i == s.nStarts + 1
    IN  [s EXCEPT
            !.errorMessage = SetState(s.errorMessage, "Could not access microphone or connect."),
            !.status = SetState(s.status, "error"),
            !.audioContextRef = IF dev = "input" THEN i ELSE s.audioContextRef,
            !.att = [s.att EXCEPT ![i] =
                        [NoAttempt EXCEPT !.outCtx = IF dev = "input" THEN "running" ELSE "none",
                                          !.born = clock]],
            !.nStarts = i]

\* How a call of startSession can go before its first await.
StartOutcomes == { "ok", "output", "input" }

start(s, dev) == IF dev = "ok" THEN startSession(s) ELSE startSessionThrows(s, dev)

StartOp(dev, op) == IF dev = "ok" THEN op ELSE "startFailed"

\* ---------------------------------------------------------------- history

Nominal == << "start", "micGranted", "onopen", "onmessage", "enqueue", "ended", "unmount" >>

ScenNext(op) ==
    IF scen >= 0 /\ scen < Len(Nominal) /\ Nominal[scen + 1] = op
    THEN scen + 1 ELSE -1

\* last names the step when it was an enqueue (with the context's current
\* time, whether the active set was empty and whether an interruption had
\* been handled since the enqueue before), the handling of an interruption,
\* onerror (with the status it found), or an 'ended' listener (with the
\* status it found; "endedOthers" when it left the active set non-empty);
\* every other handler leaves NoStep.
NoStep == [op |-> "other", at |-> 0, idle |-> FALSE, afterInt |-> FALSE, was |-> ""]

\* Every handler but Tick moves the scenario on or ends it; calls is the
\* number of cleanup() invocations after the handler.
Note(op, calls) ==
    /\ scen' = ScenNext(op)
    /\ cleanupCalls' = IF ScenNext(op) >= 0 THEN calls ELSE 0
    /\ last' = IF op = "interrupted" THEN [NoStep EXCEPT !.op = op]
               ELSE IF op \in { "onerror", "ended", "endedOthers" }
               THEN [NoStep EXCEPT !.op = op, !.was = status]
               ELSE IF op = "enqueue"
               THEN [NoStep EXCEPT !.op = op, !.at = currentTime(pending.ctx),
                                   !.idle = (sourcesRef = {}),
                                   !.afterInt = interruptedSince]
               ELSE NoStep

Put(s, op) ==
    /\ Note(op, s.cleanupCalls)
    /\ status' = s.status
    /\ isActive' = s.isActive
    /\ errorMessage' = s.errorMessage
    /\ sessionPromiseRef' = s.sessionPromiseRef
    /\ audioContextRef' = s.audioContextRef
    /\ inputContextRef' = s.inputContextRef
    /\ streamRef' = s.streamRef
    /\ processorRef' = s.processorRef
    /\ nextStartTimeRef' = s.nextStartTimeRef
    /\ sourcesRef' = s.sourcesRef
    /\ att' = s.att
    /\ srcs' = s.srcs
    /\ nStarts' = s.nStarts

Init ==
    /\ mounted = TRUE
    /\ status = "connecting"
    /\ isActive = FALSE
    /\ errorMessage = ""
    /\ sessionPromiseRef = 0
    /\ audioContextRef = 0
    /\ inputContextRef = 0
    /\ streamRef = 0
    /\ processorRef = 0
    /\ nextStartTimeRef = 0
    /\ sourcesRef = {}
    /\ att = [i \in Attempts |-> NoAttempt]
    /\ srcs = << >>
    /\ clock = 0
    /\ pending = NoValue
    /\ nStarts = 0
    /\ last = NoStep
    /\ scen = 0
    /\ cleanupCalls = 0
    /\ tornDown = FALSE
    /\ interruptedSince = FALSE
    /\ frame = << >>
    /\ blob = NoValue
    /\ decoded = NoValue
    /\ resolved = {}
    /\ thens = [i \in Attempts |-> << >>]
    /\ sent = [i \in Attempts |-> << >>]
    /\ captured = [i \in Attempts |-> 0]
    /\ state = "UPLOAD"
    /\ files = 0
    /\ isLoading = FALSE
    /\ loading = ""
    /\ lecture = 0
    /\ quiz = 0
    /\ quizAnswers = NoAnswers
    /\ quizSubmitted = FALSE
    /\ isReadingLecture = FALSE
    /\ stopTTSRef = 0
    /\ tts = << >>

\* --------------------------------------------------- actions: life cycle

\* useEffect(() => { startSession(); return cleanup; }, [startSession]) on mount.
Mount ==
    /\ mounted /\ nStarts = 0
    /\ \E dev \in StartOutcomes : Put(start(Here, dev), StartOp(dev, "start"))
    /\ UNCHANGED << mounted, clock, pending, tornDown, interruptedSince, codecVars, outVars, appVars >>

\* The same effect when files or contextSummary changed: the old effect's
\* cleanup, then startSession again.
PropsChange ==
    /\ mounted /\ pending = NoValue
    /\ nStarts >= 1 /\ nStarts < MaxStarts
    /\ \E dev \in StartOutcomes : Put(start(cleanup(Here), dev), StartOp(dev, "restart"))
    /\ tornDown' = FALSE
    /\ UNCHANGED << mounted, clock, pending, interruptedSince, codecVars, outVars, appVars >>

\* The Retry Connection button, rendered while status is 'error'.
Retry ==
    /\ mounted /\ pending = NoValue
    /\ status = "error"
    /\ nStarts < MaxStarts
    /\ \E dev \in StartOutcomes : Put(start(cleanup(Here), dev), StartOp(dev, "retry"))
    /\ tornDown' = FALSE
    /\ UNCHANGED << mounted, clock, pending, interruptedSince, codecVars, outVars, appVars >>

Unmount_NoCleanup ==
    /\ mounted /\ pending = NoValue
    /\ nStarts >= 1
    /\ mounted' = FALSE
    /\ Put(Here, "unmount")
    /\ tornDown' = TRUE
    /\ UNCHANGED << clock, pending, interruptedSince, codecVars, outVars, appVars >>

\* onClose (the X and End Session buttons) unmounts the component; the
\* effect's cleanup runs.
Unmount ==
    /\ mounted /\ pending = NoValue
    /\ nStarts >= 1
    /\ mounted' = FALSE
    /\ Put(cleanup(Here), "unmount")
    /\ tornDown' = TRUE
    /\ UNCHANGED << clock, pending, interruptedSince, codecVars, outVars, appVars >>

\* getUserMedia resolved: the rest of startSession's try block.
MicGranted(i) ==
    /\ pending = NoValue
    /\ att[i].mic = "pending"
    /\ att' = [att EXCEPT ![i].mic = "granted", ![i].stream = "live",
                          ![i].session = "connecting"]
    /\ streamRef' = i
    /\ sessionPromiseRef' = i
    /\ Note("micGranted", cleanupCalls)
    /\ UNCHANGED << mounted, status, isActive, errorMessage, audioContextRef,
                    inputContextRef, processorRef, nextStartTimeRef, sourcesRef,
                    srcs, clock, pending, nStarts, tornDown,
                    interruptedSince, codecVars, outVars, appVars >>

MicDenied_NoMessage(i) ==
    /\ pending = NoValue
    /\ att[i].mic = "pending"
    /\ att' = [att EXCEPT ![i].mic = "denied"]
    /\ status' = SetState(status, "error")
    /\ Note("micDenied", cleanupCalls)
    /\ UNCHANGED << mounted, isActive, errorMessage, sessionPromiseRef, audioContextRef,
                    inputContextRef, streamRef, processorRef, nextStartTimeRef,
                    sourcesRef, srcs, clock, pending, nStarts,
                    tornDown, interruptedSince, codecVars, outVars, appVars >>

\* getUserMedia rejected: startSession's catch block.
MicDenied(i) ==
    /\ pending = NoValue
    /\ att[i].mic = "pending"
    /\ att' = [att EXCEPT ![i].mic = "denied"]
    /\ errorMessage' = SetState(errorMessage, "Could not access microphone or connect.")
    /\ status' = SetState(status, "error")
    /\ Note("micDenied", cleanupCalls)
    /\ UNCHANGED << mounted, isActive, sessionPromiseRef, audioContextRef,
                    inputContextRef, streamRef, processorRef, nextStartTimeRef,
                    sourcesRef, srcs, clock, pending, nStarts,
                    tornDown, interruptedSince, codecVars, outVars, appVars >>

\* ------------------------------------------- actions: transport callbacks

\* What onopen of the i-th start sends as context: its files in order, then
\* the "ready" text.
ContextMessages(i) ==
    [k \in 1..NumFiles |-> [kind |-> "file", of |-> i, n |-> k]]
    \o << [kind |-> "ready", of |-> i, n |-> 0] >>

\* The chunk createBlob makes of the n-th frame of the i-th start's processor.
ChunkMessage(i, n) == [kind |-> "chunk", of |-> i, n |-> n]

\* sessionPromiseRef.current?.then(session => ...) with a callback that sends
\* msgs: nothing when the ref is null; run as a microtask of the same task
\* when the promise has resolved; otherwise queued on the promise, behind
\* the callbacks registered before it.
Then(msgs) ==
    LET j == sessionPromiseRef
    IN  IF j = 0 THEN UNCHANGED << thens, sent >>
        ELSE IF j \in resolved
        THEN sent' = [sent EXCEPT ![j] = @ \o msgs] /\ UNCHANGED thens
        ELSE thens' = [thens EXCEPT ![j] = @ \o msgs] /\ UNCHANGED sent

\* callbacks.onopen of the i-th start's session.  The capture graph is built
\* on the closure's inputCtx and stream, not on the refs.  When that context
\* has been closed in the meantime the node constructors either throw
\* (built = FALSE) or build a graph that never runs; both are modelled.
onopen(i, built) ==
    /\ pending = NoValue
    /\ att[i].session = "connecting"
    /\ built \/ att[i].inCtx = "closed"
    /\ status' = SetState(status, "listening")
    /\ isActive' = SetState(isActive, TRUE)
    /\ att' = [att EXCEPT ![i].session = "open",
                          ![i].proc = IF built THEN "connected" ELSE @]
    /\ processorRef' = IF built THEN i ELSE processorRef
    /\ Then(ContextMessages(i))
    /\ Note("onopen", cleanupCalls)
    /\ UNCHANGED << mounted, errorMessage, sessionPromiseRef, audioContextRef,
                    inputContextRef, streamRef, nextStartTimeRef, sourcesRef,
                    srcs, clock, pending, nStarts, tornDown,
                    interruptedSince, codecVars, resolved, captured,
                    appVars >>

\* if (msg.serverContent?.interrupted) { ... } of onmessage, on the scheduler
\* state sch = [srcs, sourcesRef, nextStartTimeRef, status].
interruption(sch) ==
    [sch EXCEPT !.srcs = StopAll(sch.srcs, sch.sourcesRef),
                !.sourcesRef = {},
                !.nextStartTimeRef = 0,
                !.status = SetState(sch.status, "listening")]

PutSched(sch) ==
    /\ srcs' = sch.srcs
    /\ sourcesRef' = sch.sourcesRef
    /\ nextStartTimeRef' = sch.nextStartTimeRef
    /\ status' = sch.status

\* callbacks.onmessage of the i-th start's session, up to its await: with an
\* audio part and an output context it sets 'speaking', moves the cursor up
\* to the context's current time and suspends at await decodeAudioData;
\* without, it goes straight to the interruption test.
onmessage(i, msg) ==
    /\ pending = NoValue
    /\ att[i].session = "open"
    /\ IF msg.audio # << >> /\ audioContextRef # 0
       THEN /\ Len(srcs) < MaxSources
            /\ PutSched([srcs |-> srcs, sourcesRef |-> sourcesRef,
                         nextStartTimeRef |->
                             Max(nextStartTimeRef, currentTime(audioContextRef)),
                         status |-> SetState(status, "speaking")])
            /\ pending' = [ctx |-> audioContextRef, audio |-> msg.audio,
                           interrupted |-> msg.interrupted]
            /\ Note("onmessage", cleanupCalls)
            /\ UNCHANGED interruptedSince
       ELSE /\ LET sch == [srcs |-> srcs, sourcesRef |-> sourcesRef,
                           nextStartTimeRef |-> nextStartTimeRef, status |-> status]
               IN  PutSched(IF msg.interrupted THEN interruption(sch) ELSE sch)
            /\ pending' = pending
            /\ interruptedSince' = (interruptedSince \/ msg.interrupted)
            /\ Note(IF msg.interrupted THEN "interrupted" ELSE "nothing", cleanupCalls)
    /\ UNCHANGED << mounted, isActive, errorMessage, sessionPromiseRef,
                    audioContextRef, inputContextRef, streamRef, processorRef,
                    att, clock, nStarts, tornDown, codecVars, outVars, appVars >>

\* The source node made for a decoded buffer: source.start(cursor).
NewSource(ctx, buffer) ==
    [ctx |-> ctx, start |-> nextStartTimeRef, dur |-> buffer.duration, st |-> "sched"]

\* The rest of onmessage, run as the await's continuation before any other
\* callback: a rejected decodeAudioData ends the call there (the
\* interruption test is skipped with it); otherwise the buffer is scheduled
\* at the cursor, the cursor advanced, the source added to the active set,
\* and the interruption test follows.
onmessageResume ==
    /\ pending # NoValue
    /\ LET buffer == decodeAudioData(pending.audio)
           k == Len(srcs) + 1
       IN  IF ~buffer.ok
           THEN /\ Note("decodeFailed", cleanupCalls)
                /\ UNCHANGED << srcs, sourcesRef, nextStartTimeRef, status,
                                interruptedSince >>
           ELSE LET sch == [srcs |-> Append(srcs, NewSource(pending.ctx, buffer)),
                            sourcesRef |-> sourcesRef \cup {k},
                            nextStartTimeRef |-> nextStartTimeRef + buffer.duration,
                            status |-> status]
                IN  /\ PutSched(IF pending.interrupted THEN interruption(sch) ELSE sch)
                    /\ interruptedSince' = pending.interrupted
                    /\ Note(IF pending.interrupted THEN "interrupted" ELSE "enqueue", cleanupCalls)
    /\ pending' = NoValue
    /\ UNCHANGED << mounted, isActive, errorMessage, sessionPromiseRef,
                    audioContextRef, inputContextRef, streamRef, processorRef,
                    att, clock, nStarts, tornDown, codecVars, outVars, appVars >>

\* The 'ended' listener of source k.  The event is dispatched when the
\* source has played to its end on a running context, or after stop(); for
\* a source stopped by cleanup, whose context is closed in the same task,
\* the event may or may not be delivered: it is enabled, never forced.
ended_AlwaysListening(k) ==
    /\ pending = NoValue
    /\ \/ srcs[k].st = "stopped"
       \/ /\ srcs[k].st = "sched"
          /\ att[srcs[k].ctx].outCtx = "running"
          /\ currentTime(srcs[k].ctx) >= srcs[k].start + srcs[k].dur
    /\ srcs' = [srcs EXCEPT ![k] = Gone("done")]
    /\ sourcesRef' = sourcesRef \ {k}
    /\ status' = SetState(status, "listening")
    /\ Note(IF sourcesRef \ {k} = {} THEN "ended" ELSE "endedOthers", cleanupCalls)
    /\ UNCHANGED << mounted, isActive, errorMessage, sessionPromiseRef,
                    audioContextRef, inputContextRef, streamRef, processorRef,
                    nextStartTimeRef, att, clock, pending, nStarts,
                    tornDown, interruptedSince, codecVars, outVars, appVars >>

ended(k) ==
    /\ pending = NoValue
    /\ \/ srcs[k].st = "stopped"
       \/ /\ srcs[k].st = "sched"
          /\ att[srcs[k].ctx].outCtx = "running"
          /\ currentTime(srcs[k].ctx) >= srcs[k].start + srcs[k].dur
    /\ srcs' = [srcs EXCEPT ![k] = Gone("done")]
    /\ sourcesRef' = sourcesRef \ {k}
    /\ status' = IF sourcesRef \ {k} = {} THEN SetState(status, "listening") ELSE status
    /\ Note(IF sourcesRef \ {k} = {} THEN "ended" ELSE "endedOthers", cleanupCalls)
    /\ UNCHANGED << mounted, isActive, errorMessage, sessionPromiseRef,
                    audioContextRef, inputContextRef, streamRef, processorRef,
                    nextStartTimeRef, att, clock, pending, nStarts,
                    tornDown, interruptedSince, codecVars, outVars, appVars >>

\* callbacks.onclose of the i-th start's session: cleanup().
onclose(i) ==
    /\ pending = NoValue
    /\ att[i].session \in { "connecting", "open", "errored" }
    /\ Put(cleanup([Here EXCEPT !.att[i].session = "closed"]), "onclose")
    /\ tornDown' = TRUE
    /\ UNCHANGED << mounted, clock, pending, interruptedSince, codecVars, outVars, appVars >>

\* callbacks.onerror of the i-th start's session: the message, 'error',
\* cleanup().  The transport reports an error once and closes after it.
onerror_NoCleanup(i) ==
    /\ pending = NoValue
    /\ att[i].session \in { "connecting", "open" }
    /\ Put([Here EXCEPT
                !.att[i].session = "errored",
                !.errorMessage = SetState(errorMessage, "Connection error. Please try again."),
                !.status = SetState(status, "error")], "onerror")
    /\ tornDown' = TRUE
    /\ UNCHANGED << mounted, clock, pending, interruptedSince, codecVars, outVars, appVars >>

onerror(i) ==
    /\ pending = NoValue
    /\ att[i].session \in { "connecting", "open" }
    /\ Put(cleanup([Here EXCEPT
                        !.att[i].session = "errored",
                        !.errorMessage = SetState(errorMessage, "Connection error. Please try again."),
                        !.status = SetState(status, "error")]), "onerror")
    /\ tornDown' = TRUE
    /\ UNCHANGED << mounted, clock, pending, interruptedSince, codecVars, outVars, appVars >>

\* Time passes on the clock of every running output context.
Tick ==
    /\ pending = NoValue
    /\ \E i \in Attempts : att[i].outCtx = "running"
    /\ clock < MaxTime
    /\ clock' = clock + 1
    /\ UNCHANGED << mounted, status, isActive, errorMessage, sessionPromiseRef,
                    audioContextRef, inputContextRef, streamRef, processorRef,
                    nextStartTimeRef, sourcesRef, att, srcs, pending, nStarts,
                    last, scen, cleanupCalls, tornDown, interruptedSince, codecVars, outVars, appVars >>

Next ==
    \/ Mount
    \/ PropsChange
    \/ Retry
    \/ Unmount
    \/ \E i \in Attempts : MicGranted(i)
    \/ \E i \in Attempts : MicDenied(i)
    \/ \E i \in Attempts, built \in BOOLEAN : onopen(i, built)
    \/ \E i \in Attempts, msg \in Messages : onmessage(i, msg)
    \/ onmessageResume
    \/ \E k \in DOMAIN srcs : ended(k)
    \/ \E i \in Attempts : onclose(i)
    \/ \E i \in Attempts : onerror(i)
    \/ Tick

Spec == Init /\ [][Next]_vars

\* ------------------------------------------------------ actions: outbound

\* The promise ai.live.connect returned to the i-th start resolves with the
\* session, once the session is open: the callbacks queued on it run in the
\* order they were registered.
SessionResolved(i) ==
    /\ pending = NoValue
    /\ att[i].session = "open"
    /\ i \notin resolved
    /\ resolved' = resolved \cup {i}
    /\ sent' = [sent EXCEPT ![i] = @ \o thens[i]]
    /\ thens' = [thens EXCEPT ![i] = << >>]
    /\ UNCHANGED << captured, compVars, codecVars, appVars >>

\* processor.onaudioprocess of the i-th start's ScriptProcessor, which fires
\* while the node is connected in a running context: one frame, one chunk.
onaudioprocess(i) ==
    /\ pending = NoValue
    /\ att[i].proc = "connected"
    /\ att[i].inCtx = "running"
    /\ captured[i] < MaxFrames
    /\ captured' = [captured EXCEPT ![i] = @ + 1]
    /\ Then(<< ChunkMessage(i, captured[i] + 1) >>)
    /\ UNCHANGED << resolved, compVars, codecVars, appVars >>

\* The life cycle with the outbound side of the transport.  The outbound
\* actions write resolved, thens, sent and captured only, which no other
\* action reads; the inbound actions (onmessage, 'ended', the clock) write
\* no ref and no device, stream or session that the outbound actions read.
OutboundNext ==
    \/ Mount
    \/ PropsChange
    \/ Retry
    \/ Unmount
    \/ \E i \in Attempts : MicGranted(i)
    \/ \E i \in Attempts : MicDenied(i)
    \/ \E i \in Attempts, built \in BOOLEAN : onopen(i, built)
    \/ \E i \in Attempts : onclose(i)
    \/ \E i \in Attempts : onerror(i)
    \/ \E i \in Attempts : SessionResolved(i)
    \/ \E i \in Attempts : onaudioprocess(i)

OutboundSpec == Init /\ [][OutboundNext]_vars

\* ----------------------------------------------------------- actions: App

\* The views below the loading screen take clicks only while isLoading is
\* false (if (isLoading) return the loader).
handleFileUpload ==
    /\ ~isLoading /\ state = "UPLOAD"
    /\ files < NumFiles
    /\ files' = files + 1
    /\ UNCHANGED << state, isLoading, loading, lecture, quiz, quizAnswers,
                    quizSubmitted, isReadingLecture, stopTTSRef, tts,
                    compVars, codecVars, outVars >>

\* startLectureGeneration up to its await of generateLecture.
startLectureGeneration ==
    /\ ~isLoading /\ state = "UPLOAD"
    /\ files # 0
    /\ lecture < MaxLectures
    /\ isLoading' = TRUE
    /\ loading' = "lecture"
    /\ UNCHANGED << state, files, lecture, quiz, quizAnswers, quizSubmitted,
                    isReadingLecture, stopTTSRef, tts,
                    compVars, codecVars, outVars >>

\* The rest of startLectureGeneration: the lecture stored and shown, or the
\* alert of the catch block; isLoading false in the finally block.
LectureGenerated(ok) ==
    /\ isLoading /\ loading = "lecture"
    /\ lecture' = IF ok THEN lecture + 1 ELSE lecture
    /\ state' = IF ok THEN "LECTURE" ELSE state
    /\ isLoading' = FALSE
    /\ loading' = ""
    /\ UNCHANGED << files, quiz, quizAnswers, quizSubmitted, isReadingLecture,
                    stopTTSRef, tts, compVars, codecVars, outVars >>

\* startQuiz (the Take Quiz button of the lecture view) up to its await of
\* generateQuiz.
startQuiz ==
    /\ ~isLoading /\ state = "LECTURE"
    /\ lecture # 0
    /\ quiz < MaxQuizzes
    /\ isLoading' = TRUE
    /\ loading' = "quiz"
    /\ UNCHANGED << state, files, lecture, quiz, quizAnswers, quizSubmitted,
                    isReadingLecture, stopTTSRef, tts,
                    compVars, codecVars, outVars >>

\* The rest of startQuiz: setQuiz(questions) and setState(QUIZ), or the alert.
QuizGenerated(ok) ==
    /\ isLoading /\ loading = "quiz"
    /\ quiz' = IF ok THEN quiz + 1 ELSE quiz
    /\ state' = IF ok THEN "QUIZ" ELSE state
    /\ isLoading' = FALSE
    /\ loading' = ""
    /\ UNCHANGED << files, lecture, quizAnswers, quizSubmitted, isReadingLecture,
                    stopTTSRef, tts, compVars, codecVars, outVars >>

\* An option button of the quiz view.
answer(idx, optIdx) ==
    /\ ~isLoading /\ state = "QUIZ"
    /\ ~quizSubmitted
    /\ quizAnswers' = [i \in DOMAIN quizAnswers \cup {idx} |->
                          IF i = idx THEN optIdx ELSE quizAnswers[i]]
    /\ UNCHANGED << state, files, isLoading, loading, lecture, quiz,
                    quizSubmitted, isReadingLecture, stopTTSRef, tts,
                    compVars, codecVars, outVars >>

\* The Submit Quiz button, disabled until every question has an answer.
submitQuiz ==
    /\ ~isLoading /\ state = "QUIZ"
    /\ ~quizSubmitted
    /\ Cardinality(DOMAIN quizAnswers) = QuizLen
    /\ quizSubmitted' = TRUE
    /\ UNCHANGED << state, files, isLoading, loading, lecture, quiz,
                    quizAnswers, isReadingLecture, stopTTSRef, tts,
                    compVars, codecVars, outVars >>

\* The header's New Class button.
NewClass ==
    /\ ~isLoading /\ state # "UPLOAD"
    /\ state' = "UPLOAD"
    /\ UNCHANGED << files, isLoading, loading, lecture, quiz, quizAnswers,
                    quizSubmitted, isReadingLecture, stopTTSRef, tts,
                    compVars, codecVars, outVars >>

\* The quiz view's Back to Lecture button.
BackToLecture ==
    /\ ~isLoading /\ state = "QUIZ"
    /\ state' = "LECTURE"
    /\ UNCHANGED << files, isLoading, loading, lecture, quiz, quizAnswers,
                    quizSubmitted, isReadingLecture, stopTTSRef, tts,
                    compVars, codecVars, outVars >>

\* The Start New Class button, shown with the score of a submitted quiz.
StartNewClass ==
    /\ ~isLoading /\ state = "QUIZ"
    /\ quizSubmitted
    /\ state' = "UPLOAD"
    /\ files' = 0
    /\ lecture' = 0
    /\ quizAnswers' = NoAnswers
    /\ quizSubmitted' = FALSE
    /\ UNCHANGED << isLoading, loading, quiz, isReadingLecture, stopTTSRef, tts,
                    compVars, codecVars, outVars >>

\* The stop function playTTS returned for its k-th call: source.stop() and
\* audioCtx.close() when it had audio, nothing otherwise.
stopFn(k, t) == IF t[k] = "playing" THEN [t EXCEPT ![k] = "stopped"] ELSE t

\* handleReadLecture (the Read Lecture / Stop Reading button of the lecture
\* view), up to its await of playTTS.
handleReadLecture ==
    /\ ~isLoading /\ state = "LECTURE" /\ lecture # 0
    /\ IF isReadingLecture
       THEN /\ tts' = IF stopTTSRef # 0 THEN stopFn(stopTTSRef, tts) ELSE tts
            /\ isReadingLecture' = FALSE
       ELSE /\ Len(tts) < MaxTTS
            /\ isReadingLecture' = TRUE
            /\ tts' = Append(tts, "pending")
    /\ UNCHANGED << state, files, isLoading, loading, lecture, quiz,
                    quizAnswers, quizSubmitted, stopTTSRef,
                    compVars, codecVars, outVars >>

\* The k-th playTTS call settles, and handleReadLecture stores what it
\* returned: with audio the source is started; without audio, or when the
\* request or the decoding throws, onEnded is called and the stop function
\* does nothing.
playTTS(k, audio) ==
    /\ tts[k] = "pending"
    /\ tts' = [tts EXCEPT ![k] = IF audio THEN "playing" ELSE "silent"]
    /\ isReadingLecture' = IF audio THEN isReadingLecture ELSE FALSE
    /\ stopTTSRef' = k
    /\ UNCHANGED << state, files, isLoading, loading, lecture, quiz,
                    quizAnswers, quizSubmitted, compVars, codecVars, outVars >>

\* source.onended = onEnded of the k-th call: the speech played to its end,
\* or was stopped (the event of a stopped source, whose context is closed in
\* the same task, is enabled, never forced).
onEnded(k) ==
    /\ tts[k] \in { "playing", "stopped" }
    /\ tts' = [tts EXCEPT ![k] = "ended"]
    /\ isReadingLecture' = FALSE
    /\ UNCHANGED << state, files, isLoading, loading, lecture, quiz,
                    quizAnswers, quizSubmitted, stopTTSRef,
                    compVars, codecVars, outVars >>

AppNext ==
    \/ handleFileUpload
    \/ startLectureGeneration
    \/ \E ok \in BOOLEAN : LectureGenerated(ok)
    \/ startQuiz
    \/ \E ok \in BOOLEAN : QuizGenerated(ok)
    \/ \E idx \in 1..QuizLen, optIdx \in 0..(NumOptions - 1) : answer(idx, optIdx)
    \/ submitQuiz
    \/ NewClass
    \/ BackToLecture
    \/ StartNewClass
    \/ handleReadLecture
    \/ \E k \in DOMAIN tts, audio \in BOOLEAN : playTTS(k, audio)
    \/ \E k \in DOMAIN tts : onEnded(k)

AppSpec == Init /\ [][AppNext]_vars

\* ---------------------------------------------------------- codec harness

\* Sample values in [-1, 1]: both endpoints, their neighbours, zero and its
\* neighbours, and one quantization step.
Samples == { -One, 1 - One, -Sub, -1, 0, 1, Sub, One - 1, One }

\* Raw payloads of a byte length that is not a multiple of 2.
OddPayloads == { << 7 >>, << 1, 2, 3 >> }

CodecInit == Init

AppendSample ==
    /\ blob = NoValue
    /\ Len(frame) < MaxFrameLen
    /\ \E v \in Samples : frame' = Append(frame, v)
    /\ UNCHANGED << blob, decoded, compVars, outVars, appVars >>

Encode ==
    /\ blob = NoValue
    /\ blob' = createBlob(frame)
    /\ UNCHANGED << frame, decoded, compVars, outVars, appVars >>

\* A chunk that no createBlob produced: the payload of a malformed message.
ReceiveOdd ==
    /\ blob = NoValue
    /\ frame = << >>
    /\ \E p \in OddPayloads : blob' = [data |-> btoa(p), mimeType |-> "audio/pcm"]
    /\ UNCHANGED << frame, decoded, compVars, outVars, appVars >>

Decode ==
    /\ blob # NoValue
    /\ decoded = NoValue
    /\ decoded' = decodeAudioData(blob.data)
    /\ UNCHANGED << frame, blob, compVars, outVars, appVars >>

CodecNext == AppendSample \/ Encode \/ ReceiveOdd \/ Decode

CodecSpec == CodecInit /\ [][CodecNext]_vars

\* ================================================================ claims

NoneScheduled == \A k \in DOMAIN srcs : srcs[k].st # "sched"

RefsNull ==
    /\ sessionPromiseRef = 0
    /\ audioContextRef = 0
    /\ inputContextRef = 0
    /\ streamRef = 0

\* C1: a buffer enqueued with no active source starts at the output device's
\* current time at that enqueue (t0), and a buffer enqueued, with no
\* interruption in between, before the buffer enqueued before it has
\* finished starts where that one ends; so the i-th buffer of such a run
\* starts at t0 plus the durations of the buffers before it.
C1_GaplessInOrder ==
    last.op = "enqueue" =>
        LET k == Len(srcs)
        IN  /\ last.idle => srcs[k].start = last.at
            /\ ( /\ k > 1
                 /\ ~last.afterInt
                 /\ srcs[k - 1].st = "sched"
                 /\ srcs[k - 1].ctx = srcs[k].ctx
                 /\ last.at < srcs[k - 1].start + srcs[k - 1].dur )
               => srcs[k].start = srcs[k - 1].start + srcs[k - 1].dur

\* C2: after a message with the interruption flag has been handled the active
\* set is empty and no source is left scheduled or playing, and the first
\* buffer enqueued after it starts at the output device's current time at
\* that enqueue.
C2_Interruption ==
    /\ last.op = "interrupted" =>
           sourcesRef = {} /\ NoneScheduled /\ nextStartTimeRef = 0
    /\ (last.op = "enqueue" /\ last.afterInt) =>
           srcs[Len(srcs)].start = last.at

\* C2 witness: a source was stopped by an interruption, and the buffer
\* enqueued after it, later than time 0, started at the current time.
C2_Witness ==
    /\ last.op = "enqueue" /\ last.afterInt /\ last.at > 0
    /\ Len(srcs) = 2
    /\ srcs[1].st \in { "stopped", "done" }
    /\ srcs[2].st = "sched" /\ srcs[2].start = last.at

\* C3: when onerror has run, whatever the status it found, the status is
\* 'error' with a message, the active set is empty, no source is left
\* scheduled or playing, and the refs to the devices, the stream and the
\* session are null.
C3_TransportError ==
    last.op = "onerror" =>
        /\ mounted => (status = "error" /\ errorMessage # "")
        /\ sourcesRef = {}
        /\ NoneScheduled
        /\ RefsNull
        /\ tornDown

\* C3 witness: onerror arrived in 'speaking' and stopped a source.
C3_Witness ==
    /\ last.op = "onerror" /\ last.was = "speaking"
    /\ mounted /\ status = "error"
    /\ \E k \in DOMAIN srcs : srcs[k].st = "stopped"
    /\ sourcesRef = {}

\* C4: once the status of the mounted component is 'error' it stays 'error'
\* under every step but a new start, which sets 'connecting'.
C4_ErrorIsTerminal ==
    [][ (mounted /\ status = "error") =>
            \/ status' = "error"
            \/ (status' = "connecting" /\ nStarts' = nStarts + 1) ]_vars

\* Nothing is held: every ref is null, the active set is empty, and no
\* processor is connected, no stream live, no context running.
Released ==
    /\ RefsNull
    /\ processorRef = 0
    /\ sourcesRef = {}
    /\ \A i \in Attempts :
        /\ att[i].proc # "connected"
        /\ att[i].stream # "live"
        /\ att[i].inCtx # "running"
        /\ att[i].outCtx # "running"

\* C5: after a teardown (unmount, remote close, remote error), and until a
\* new start is requested, nothing is held.
C5_TeardownTotal == tornDown => Released

\* What a caller of cleanup can observe of its result.
Observable(s) ==
    [status |-> s.status, errorMessage |-> s.errorMessage, isActive |-> s.isActive,
     nextStartTimeRef |-> s.nextStartTimeRef, sourcesRef |-> s.sourcesRef,
     srcs |-> s.srcs, att |-> s.att, sessionPromiseRef |-> s.sessionPromiseRef,
     audioContextRef |-> s.audioContextRef, inputContextRef |-> s.inputContextRef,
     streamRef |-> s.streamRef, processorRef |-> s.processorRef]

\* C6: in every reachable state, cleanup called twice in a row raises
\* nothing, and the second call leaves what the first one left.
C6_CleanupIdempotent ==
    LET once == cleanup(Here)
        twice == cleanup(once)
    IN  /\ ~once.raised
        /\ ~twice.raised
        /\ Observable(twice) = Observable(once)

\* C6 witness: a state in which the first call has everything to release.
C6_Witness ==
    /\ sourcesRef # {}
    /\ streamRef # 0 /\ processorRef # 0 /\ inputContextRef # 0
    /\ audioContextRef # 0 /\ sessionPromiseRef # 0 /\ isActive
    /\ Observable(cleanup(Here)) # Observable(Here)
    /\ Observable(cleanup(cleanup(Here))) = Observable(cleanup(Here))

\* C7: along the nominal run (start, microphone granted, open, one audio
\* chunk, its enqueue, its end, the user closing) the status is
\* 'connecting', then 'listening' after the open, 'speaking' from the chunk
\* on, 'listening' again when playback has drained; cleanup has not run
\* before the user closes and has run exactly once when they have.
C7_NominalRun ==
    /\ scen \in 0..2 => status = "connecting"
    /\ scen = 3 => status = "listening"
    /\ scen \in 4..5 => status = "speaking"
    /\ scen = 6 => (status = "listening" /\ sourcesRef = {})
    /\ scen \in 0..6 => cleanupCalls = 0
    /\ scen = 7 => (cleanupCalls = 1 /\ ~mounted /\ status = "listening")

C7_Witness == scen = 7 /\ cleanupCalls = 1

LiveSessions == { i \in Attempts : att[i].session \in { "connecting", "open" } }

\* C8: at most one session is live, with at most one live capture stream
\* and one running input and output device.
C8_OneLiveSession ==
    /\ Cardinality(LiveSessions) <= 1
    /\ Cardinality({ i \in Attempts : att[i].stream = "live" }) <= 1
    /\ Cardinality({ i \in Attempts : att[i].inCtx = "running" }) <= 1
    /\ Cardinality({ i \in Attempts : att[i].outCtx = "running" }) <= 1

\* C9: decoding the chunk createBlob made of a frame gives a buffer of the
\* frame's length, each sample within one quantization step (1/32768, that
\* is Sub sample units) of the frame's.
C9_RoundTrip ==
    (blob # NoValue /\ blob.mimeType = "audio/pcm;rate=16000" /\ decoded # NoValue) =>
        /\ decoded.ok
        /\ Len(decoded.channelData) = Len(frame)
        /\ \A i \in 1..Len(frame) : Abs(decoded.channelData[i] - frame[i]) <= Sub

\* C10: decodeAudioData of a chunk whose decoded byte length is odd fails and
\* produces no buffer.
C10_OddLengthFails ==
    (blob # NoValue /\ decoded # NoValue /\ atob(blob.data).ok
        /\ Len(atob(blob.data).bytes) % 2 = 1) =>
        /\ ~decoded.ok
        /\ "channelData" \notin DOMAIN decoded

C10_Witness ==
    /\ blob # NoValue /\ decoded # NoValue
    /\ Len(atob(blob.data).bytes) = 3
    /\ ~decoded.ok

\* C16: the chunk createBlob makes of a frame of zero samples decodes to a
\* buffer of zero samples.
C16_EmptyFrame ==
    (frame = << >> /\ blob = createBlob(<< >>) /\ decoded # NoValue) =>
        /\ decoded.ok
        /\ decoded.channelData = << >>

\* C11: a chunk that fails to decode, received in 'listening' or 'speaking',
\* is dropped and nothing else: neither the step that receives it nor the
\* step in which its decoding fails changes the status, the cursor or the
\* active set, and the failure ends no session and tears nothing down.
C11_MalformedChunkDropped ==
    [][ /\ ( /\ pending = NoValue
             /\ pending' # NoValue
             /\ ~decodeAudioData(pending'.audio).ok
             /\ status \in { "listening", "speaking" } )
           => /\ status' = status
              /\ nextStartTimeRef' = nextStartTimeRef
              /\ sourcesRef' = sourcesRef
        /\ ( /\ pending # NoValue
             /\ ~decodeAudioData(pending.audio).ok )
           => /\ status' = status
              /\ nextStartTimeRef' = nextStartTimeRef
              /\ sourcesRef' = sourcesRef
              /\ srcs' = srcs
              /\ att' = att
              /\ errorMessage' = errorMessage
              /\ tornDown' = tornDown ]_vars

\* C14: no step makes the cursor smaller, except the handling of an
\* interruption, which sets it to 0.
C14_CursorMonotone ==
    [][ \/ nextStartTimeRef' >= nextStartTimeRef
        \/ (last'.op = "interrupted" /\ nextStartTimeRef' = 0) ]_vars

\* C14 witness: an interruption has stopped a scheduled source, so it found
\* the cursor past that source's start and duration, and left it at 0.
C14_Witness ==
    /\ last.op = "interrupted"
    /\ nextStartTimeRef = 0
    /\ \E k \in DOMAIN srcs : srcs[k].st = "stopped"

\* C17: the 'ended' listener of a source removes it from the active set; when
\* it ran in 'speaking' the status is 'listening' if it left the set empty
\* and 'speaking' if it did not; and a chunk received in 'speaking', with no
\* interruption flag, leaves the status 'speaking' when it is received and
\* when it is enqueued.
C17_DrainDetection ==
    [][ /\ \A k \in DOMAIN srcs :
            (srcs[k].st # "done" /\ srcs'[k].st = "done") =>
                /\ sourcesRef' = sourcesRef \ {k}
                /\ (mounted /\ status = "speaking") =>
                       status' = IF sourcesRef' = {} THEN "listening" ELSE "speaking"
        /\ ( /\ mounted /\ status = "speaking"
             /\ pending = NoValue /\ pending' # NoValue )
           => status' = "speaking"
        /\ ( /\ mounted /\ status = "speaking"
             /\ pending # NoValue /\ ~pending.interrupted )
           => status' = "speaking" ]_vars

\* C17 witness: a source ended in 'speaking' while another one was still in
\* the active set, and the status is still 'speaking'.
C17_Witness ==
    /\ last.op = "endedOthers" /\ last.was = "speaking"
    /\ mounted /\ status = "speaking"
    /\ sourcesRef # {}
    /\ \E k \in DOMAIN srcs : srcs[k].st = "done"

\* C19: whenever there is an output context, the active set is empty and no
\* enqueue is in progress, the cursor is not later than the context's
\* current time; so the first buffer enqueued after a teardown and a new
\* start, scheduled at the later of the two, starts at the current time.
C19_NoCursorLeak ==
    (audioContextRef # 0 /\ sourcesRef = {} /\ pending = NoValue) =>
        nextStartTimeRef <= currentTime(audioContextRef)

\* C20: while the status of the mounted component is 'speaking', a source is
\* in the active set or a received chunk is being decoded and enqueued.
C20_SpeakingHasAudio ==
    (mounted /\ status = "speaking") => (sourcesRef # {} \/ pending # NoValue)

\* The devices, the stream, the session and the capture graph that the refs
\* name are there and running, a being the state of every start's objects.
SetUp(aRef, iRef, sRef, pRef, spRef, a) ==
    /\ aRef # 0 /\ a[aRef].outCtx = "running"
    /\ iRef # 0 /\ a[iRef].inCtx = "running"
    /\ sRef # 0 /\ a[sRef].stream = "live"
    /\ spRef # 0 /\ a[spRef].session = "open"
    /\ pRef # 0 /\ a[pRef].proc = "connected"

\* C12: a step that takes the status of the mounted component from
\* 'connecting' to 'listening' ends in a state where both contexts run, the
\* stream is live, the session is open, the capture graph is connected, and
\* the session has been handed the files and then the ready signal.
C12_SetupPrecedesListening ==
    [][ (mounted /\ status = "connecting" /\ status' = "listening") =>
            /\ SetUp(audioContextRef', inputContextRef', streamRef',
                     processorRef', sessionPromiseRef', att')
            /\ sent'[sessionPromiseRef'] = ContextMessages(sessionPromiseRef') ]_vars

\* What the i-th start has released, or never had.
AttemptReleased(a) ==
    /\ a.proc # "connected"
    /\ a.stream # "live"
    /\ a.inCtx # "running"
    /\ a.outCtx # "running"
    /\ a.session \notin { "connecting", "open" }
    /\ a.mic # "pending"

\* C13: while the status of the mounted component is 'error', a step that is
\* not a new start opens no session; a new start from 'error' leaves every
\* earlier start's devices, stream, sources and session released, and then
\* has status 'connecting' with fresh contexts in the refs (or 'error', when
\* a context could not be made).
C13_RetryTearsDownFirst ==
    [][ (mounted /\ status = "error") =>
            /\ nStarts' = nStarts =>
                   \A i \in Attempts :
                       att'[i].session = "connecting" => att[i].session = "connecting"
            /\ nStarts' = nStarts + 1 =>
                   /\ \A j \in 1..nStarts : AttemptReleased(att'[j])
                   /\ sourcesRef' = {}
                   /\ \A k \in DOMAIN srcs' : srcs'[k].st # "sched"
                   /\ \/ status' = "error"
                      \/ /\ status' = "connecting"
                         /\ audioContextRef' = nStarts'
                         /\ inputContextRef' = nStarts'
                         /\ streamRef' = 0
                         /\ sessionPromiseRef' = 0 ]_vars

\* C15: a start whose microphone was refused, or which could not make an
\* audio context, has no stream, no session and no capture graph, then and
\* ever after; and the step in which it fails leaves the mounted component
\* in 'error' with a message.
C15_DeviceAcquisitionFailure ==
    [][ /\ \A i \in 1..nStarts' :
            att'[i].mic \in { "denied", "none" } =>
                /\ att'[i].stream = "none"
                /\ att'[i].session = "none"
                /\ att'[i].proc = "none"
        /\ \A i \in Attempts :
            ( \/ att[i].mic = "pending" /\ att'[i].mic = "denied"
              \/ nStarts = i - 1 /\ nStarts' = i /\ att'[i].mic = "none" )
            => (mounted' => (status' = "error" /\ errorMessage' # "")) ]_vars

\* C15 witness: the microphone of the only start was refused; the component
\* shows the error, and holds no stream, session or capture graph.
C15_Witness ==
    /\ mounted /\ nStarts = 1 /\ att[1].mic = "denied"
    /\ status = "error" /\ errorMessage # ""
    /\ streamRef = 0 /\ sessionPromiseRef = 0 /\ processorRef = 0
    /\ att[1].session = "none" /\ att[1].proc = "none"

\* C18: what the i-th start's session has been handed, followed by what the
\* callbacks waiting on its promise will hand it, is nothing while its
\* processor has delivered no frame and onopen has not run, and otherwise
\* its files in order, the ready signal, and one chunk per frame its
\* processor has delivered, in the order of delivery.
C18_OutboundOrder ==
    \A i \in Attempts :
        LET all == sent[i] \o thens[i]
        IN  \/ all = << >> /\ captured[i] = 0
            \/ all = ContextMessages(i)
                     \o [n \in 1..captured[i] |-> ChunkMessage(i, n)]

\* C21: a step in which startQuiz stores a newly generated quiz and shows the
\* quiz view ends with quizSubmitted false and quizAnswers empty.
C21_FreshQuiz ==
    [][ (quiz' # quiz /\ state' = "QUIZ") =>
            (quizSubmitted' = FALSE /\ quizAnswers' = NoAnswers) ]_vars

\* C22: no step ends with lecture speech playing while isReadingLecture is
\* false; and a playTTS call that fails or gets no audio calls onEnded
\* (isReadingLecture false) and hands back a stop function that does nothing.
C22_ReadAloudFlag ==
    [][ /\ \A k \in DOMAIN tts' : tts'[k] = "playing" => isReadingLecture'
        /\ \A k \in DOMAIN tts :
            (tts[k] = "pending" /\ tts'[k] = "silent") =>
                /\ ~isReadingLecture'
                /\ stopTTSRef' = k
                /\ stopFn(k, tts') = tts' ]_vars

====
